---- MODULE Spec2Model ----
(***************************************************************************)
(* Model of the ingestion job of lib/children/fetch.js: one process reads  *)
(* a job description from stdin, starts the mongo connection, downloads    *)
(* every configured source in parallel, deletes the group's data, parses   *)
(* the downloaded blobs into one array, stores it and exits.               *)
(*                                                                         *)
(* Every action is one callback of the node event loop: a callback runs to *)
(* completion, so everything it calls synchronously is part of the action. *)
(* process.exit() ends the process inside the callback that calls it, and  *)
(* an exception nobody catches ends it with the uncaught-exception code.   *)
(***************************************************************************)
EXTENDS Bags, FiniteSets, Integers, Sequences, TLC

(***************************************************************************)
(* Bounds of the model.                                                    *)
(***************************************************************************)
\* each parser emits at most this many records
MaxRecs == 1
\* a job description configures at most this many of the four sources
MaxConfigured == 2

(***************************************************************************)
(* Values.                                                                 *)
(***************************************************************************)
\* null / undefined of the program
Null == "null"

\* the keys download() enumerates, in the order of its task array
SourceKeys == <<"carelink", "diasend", "tconnect", "dexcom">>

Keys == {SourceKeys[i] : i \in 1..Len(SourceKeys)}

\* position of a key in download()'s task array
KeyIndex(k) == CHOOSE i \in 1..Len(SourceKeys) : SourceKeys[i] = k

\* the names the in-d-gestion registry answers to: ingestion[name] != null
Registered == Keys

\* the values config.<key>.type takes in the job descriptions of the model:
\* the key itself, an unknown name and, for diasend (fetch() is the same
\* for every key), the name of another registered service
TypesOf(k) ==
  IF k = "diasend" THEN {k, "carelink", "bogus"} ELSE {k, "bogus"}

\* the group of the job and another group of the database
GroupIds == {"g1"}

OtherGroup == "g2"

\* file name fetch() saves a source under
FileName(k) ==
  CASE k = "carelink" -> "carelink.csv"
    [] k = "diasend"  -> "diasend.xls"
    [] k = "tconnect" -> "tconnect.xml"
    [] k = "dexcom"   -> "dexcom.csv"

\* messages of the errors storage.save reports (error.message)
SaveErrorMessages == {"", "save failed"}

\* process exit codes
ExitSuccess == 0

ExitFailure == 255

\* exit code of node on an uncaught exception
ExitUncaught == 1

(***************************************************************************)
(* Job descriptions: config.groupId is a string or missing, config.<key>   *)
(* is a source config (modelled by its type field) or missing.             *)
(***************************************************************************)
JobDescriptions ==
  {c \in [groupId : GroupIds \cup {Null},
          carelink : TypesOf("carelink") \cup {Null},
          diasend : TypesOf("diasend") \cup {Null},
          tconnect : TypesOf("tconnect") \cup {Null},
          dexcom : TypesOf("dexcom") \cup {Null}] :
     Cardinality({k \in Keys : c[k] # Null}) <= MaxConfigured}

\* records in the database before the run: one of the job's group, one of
\* another group
PreRunRecords ==
  {[source |-> "carelink", n |-> 1, _groupId |-> "g1"],
   [source |-> "carelink", n |-> 1, _groupId |-> OtherGroup]}

\* the databases a run starts with
PreRunStores == {EmptyBag, SetToBag(PreRunRecords)}

VARIABLES
  config,         \* the parsed job description (stdin handler, go)
  taskStorageDir, \* process.argv[2] or null
  run,            \* number of the invocation of the job
  firstRun,       \* what the first invocation handed over, parsed and left
  preRun,         \* the database the invocation started on
  stdinRest,      \* characters of stdin not yet delivered to the data handler
  input,          \* the input string of the data handler
  goArgs,         \* the input texts whose parse put go on the next tick
  phase,          \* position of the run in go's waterfall
  exited,         \* exit codes the process ended with (at most one)
  startCalls,     \* number of mongoClient.start calls
  closeCalls,     \* number of mongoClient.close calls
  errorJson,      \* contents written to error.json
  warned,         \* (reason, error) pairs fail() logged
  ticks,          \* process.nextTick queue of download's unconfigured tasks
  fstate,         \* per key: state of its async.parallel task
  fetchCalls,     \* Fetcher invocations: [key, fetcher]
  results,        \* async.parallel results, <<>> for null/undefined
  saveResult,     \* per key: the (err, location) storage.save called back with
  unlinkCalls,    \* number of fs.unlink calls
  unlinkWarned,   \* number of unlink errors logged
  files,          \* the locations download() handed to its callback
  persisted,      \* bag of the records in the database
  deleteCalls,    \* groupIds deleteData was called with
  deleteResults,  \* what the callbacks of deleteData reported: "ok" or "err"
  storeCalls,     \* arrays storeData was called with
  pstate,         \* per key: state of the parse observable of its descriptor
  parseCalls,     \* Parser invocations: [source, location, config]
  emitted,        \* per key: records its parser has emitted
  resultsArray    \* resultsArray of go

procVars == <<exited, closeCalls, errorJson, warned>>

dlVars == <<ticks, fstate, fetchCalls, results, saveResult, unlinkCalls,
           unlinkWarned, files>>

dbVars == <<persisted, deleteCalls, deleteResults, storeCalls>>

parseVars == <<pstate, parseCalls, emitted, resultsArray>>

jobVars == <<config, taskStorageDir, run, firstRun, preRun>>

stdinVars == <<stdinRest, input, goArgs>>

vars == <<jobVars, stdinVars, phase, startCalls, procVars, dlVars, dbVars, parseVars>>

Running == exited = <<>>

\* the characters of JSON.stringify(c) the data handler tells apart: the
\* braces of the description and of its source configs, and anything else
RECURSIVE sourceTexts(_, _)
sourceTexts(c, n) ==
  IF n = 0 THEN <<>>
  ELSE sourceTexts(c, n - 1) \o
         (IF c[SourceKeys[n]] = Null THEN <<>> ELSE <<"{", "c", "}">>)

stringify(c) ==
  <<"{">> \o (IF c.groupId = Null THEN <<>> ELSE <<"c">>)
         \o sourceTexts(c, Len(SourceKeys)) \o <<"}">>

\* the state after the module is loaded, before stdin is looked at
Constructed ==
  /\ config \in JobDescriptions
  /\ taskStorageDir \in {Null, "dir"}
  /\ run = 1
  /\ firstRun = <<>>
  /\ phase = "stdin"
  /\ exited = <<>>
  /\ startCalls = 0
  /\ closeCalls = 0
  /\ errorJson = <<>>
  /\ warned = <<>>
  /\ ticks = <<>>
  /\ fstate = [k \in Keys |-> "idle"]
  /\ fetchCalls = {}
  /\ results = [k \in Keys |-> <<>>]
  /\ saveResult = [k \in Keys |-> <<>>]
  /\ unlinkCalls = 0
  /\ files = <<>>
  /\ persisted \in PreRunStores
  /\ deleteCalls = <<>>
  /\ storeCalls = <<>>
  /\ pstate = [k \in Keys |-> "none"]
  /\ parseCalls = {}
  /\ emitted = [k \in Keys |-> 0]
  /\ resultsArray = <<>>
  /\ preRun = persisted
  /\ unlinkWarned = 0
  /\ deleteResults = <<>>
  /\ input = <<>>
  /\ goArgs = <<>>

\* stdin holds the job description and nothing else
Init ==
  /\ Constructed
  /\ stdinRest = stringify(config)

(***************************************************************************)
(* fail(): close the connection, write error.json when a storage directory *)
(* was given, exit 255.                                                    *)
(***************************************************************************)
failNoArtifact(reason, error) ==
  /\ closeCalls' = closeCalls + 1
  /\ warned' = Append(warned, [reason |-> reason, error |-> error])
  /\ errorJson' = errorJson
  /\ exited' = Append(exited, ExitFailure)

fail(reason, error) ==
  /\ closeCalls' = closeCalls + 1
  /\ warned' = Append(warned, [reason |-> reason, error |-> error])
  /\ errorJson' = IF taskStorageDir # Null
                    THEN Append(errorJson, [reason |-> reason])
                    ELSE errorJson
  /\ exited' = Append(exited, ExitFailure)

\* an exception no caller catches: node ends the process, nothing else runs
uncaught ==
  /\ exited' = Append(exited, ExitUncaught)
  /\ UNCHANGED <<closeCalls, errorJson, warned>>

(***************************************************************************)
(* process.stdin.on('data'): the chunk is appended to input; when input    *)
(* ends with a closing brace it is parsed (JSON.parse throws on anything   *)
(* but one JSON text), input is set to null, pre.hasProperty throws when   *)
(* groupId is missing and otherwise go is put on the next tick.            *)
(***************************************************************************)
hasGroupIdAlways(c) == TRUE

hasGroupId(c) == c.groupId # Null

\* input.lastIndexOf('}') === input.length - 1
endsWithBrace(text) == text = <<>> \/ text[Len(text)] = "}"

\* nesting depth after the first n characters of text, -1 once they cannot
\* be the start of a JSON object
RECURSIVE depth(_, _)
depth(text, n) ==
  IF n = 0 THEN 0
  ELSE LET d == depth(text, n - 1)
       IN  IF d < 0 THEN -1
           ELSE IF text[n] = "{" THEN (IF d = 0 /\ n > 1 THEN -1 ELSE d + 1)
           ELSE IF text[n] = "}" THEN d - 1
           ELSE IF text[n] = "c" THEN (IF d = 0 THEN -1 ELSE d)
           ELSE -1

\* JSON.parse(text) throws a SyntaxError
JSONparseThrows(text) == text = <<>> \/ depth(text, Len(text)) # 0

resetInputEmpty == <<>>

\* input = null: the next input += chunk starts with the characters "null"
resetInput == <<"null">>

StdinData ==
  /\ Running
  /\ stdinRest # <<>>
  /\ \E n \in 1..Len(stdinRest) :
       LET text == input \o SubSeq(stdinRest, 1, n)
       IN  /\ stdinRest' = SubSeq(stdinRest, n + 1, Len(stdinRest))
           /\ IF ~endsWithBrace(text)
                THEN /\ input' = text
                     /\ UNCHANGED <<goArgs, phase, procVars>>
                ELSE IF JSONparseThrows(text)
                  THEN /\ uncaught
                       /\ input' = text
                       /\ UNCHANGED <<goArgs, phase>>
                  ELSE /\ input' = resetInput
                       /\ IF hasGroupId(config)
                            THEN /\ goArgs' = Append(goArgs, text)
                                 /\ phase' = IF phase = "stdin" THEN "tick" ELSE phase
                                 /\ UNCHANGED procVars
                            ELSE /\ uncaught
                                 /\ UNCHANGED <<goArgs, phase>>
  /\ UNCHANGED <<jobVars, startCalls, dlVars, dbVars, parseVars>>

\* go(config): async.waterfall calls mongoClient.start
go ==
  /\ Running
  /\ phase = "tick"
  /\ phase' = "starting"
  /\ startCalls' = startCalls + 1
  /\ UNCHANGED <<jobVars, stdinVars, procVars, dlVars, dbVars, parseVars>>

\* callback of mongoClient.start: an error goes to the waterfall's final
\* callback, which fails; otherwise the download step is scheduled
MongoStartCallback ==
  /\ Running
  /\ phase = "starting"
  /\ \E err \in BOOLEAN :
       IF err
         THEN /\ fail("Just another error", [from |-> "start", key |-> Null, message |-> "start failed"])
              /\ UNCHANGED phase
         ELSE /\ phase' = "started"
              /\ UNCHANGED procVars
  /\ UNCHANGED <<jobVars, stdinVars, startCalls, dlVars, dbVars, parseVars>>

(***************************************************************************)
(* download(): async.parallel runs its four tasks one after the other in   *)
(* the same callback.  A task of a key without config puts its callback on *)
(* the next tick; fetch() of a configured key looks the Fetcher up under   *)
(* config.type, throws when there is none and calls it otherwise.          *)
(***************************************************************************)
\* fetch(): ingestion[config.type] == null
fetchThrows(c) == c # Null /\ c \notin Registered

\* index of the first task whose fetch() throws, or one past the last task
firstThrow ==
  LET bad == {i \in 1..Len(SourceKeys) : fetchThrows(config[SourceKeys[i]])}
  IN  IF bad = {} THEN Len(SourceKeys) + 1
      ELSE CHOOSE i \in bad : \A j \in bad : i <= j

\* the unconfigured keys among the first n tasks, in task order
RECURSIVE tickQueue(_)
tickQueue(n) ==
  IF n = 0 THEN <<>>
  ELSE IF config[SourceKeys[n]] = Null
         THEN Append(tickQueue(n - 1), SourceKeys[n])
         ELSE tickQueue(n - 1)

antacidOfKey(k) == k

\* fetch(): the service looked up for the task of key k, ingestion[config.type]
antacid(k) == config[k]

download ==
  /\ Running
  /\ phase = "started"
  /\ LET ran == {k \in Keys : KeyIndex(k) < firstThrow}
     IN  /\ fetchCalls' = fetchCalls \cup
              {[key |-> k, fetcher |-> antacid(k)] : k \in {j \in ran : config[j] # Null}}
         /\ fstate' = [k \in Keys |->
              IF k \notin ran THEN fstate[k]
              ELSE IF config[k] = Null THEN "tick" ELSE "fetching"]
         /\ ticks' = tickQueue(firstThrow - 1)
  /\ IF firstThrow <= Len(SourceKeys)
       THEN /\ uncaught
            /\ UNCHANGED phase
       ELSE /\ phase' = "downloading"
            /\ UNCHANGED procVars
  /\ UNCHANGED <<jobVars, stdinVars, startCalls, results, saveResult,
                 unlinkCalls, unlinkWarned, files, dbVars, parseVars>>

\* locations.filter(e != null), in task order
RECURSIVE locations(_, _)
locations(res, n) ==
  IF n = 0 THEN <<>> ELSE locations(res, n - 1) \o res[SourceKeys[n]]

\* the callback fetch() is given for key k, applied to (err, loc): dexcom
\* always builds a descriptor, tconnect's has no config, the others pass a
\* null location through
descriptorAlways(k, loc) ==
  <<[source |-> k, location |-> loc,
     config |-> IF k = "tconnect" THEN Null ELSE config[k]]>>

descriptorUniform(k, loc) ==
  IF loc = Null THEN <<>>
  ELSE <<[source |-> k, location |-> loc,
          config |-> IF k = "tconnect" THEN Null ELSE config[k]]>>

descriptor(k, loc) ==
  IF k = "dexcom"
    THEN <<[source |-> k, location |-> loc, config |-> config[k]]>>
    ELSE IF loc = Null THEN <<>>
    ELSE <<[source |-> k, location |-> loc,
            config |-> IF k = "tconnect" THEN Null ELSE config[k]]>>

taskDoneFirstResult(k, err, value) ==
  /\ fstate' = [fstate EXCEPT ![k] = "done"]
  /\ IF err # Null
       THEN /\ fail(err, [from |-> "save", key |-> k, message |-> err])
            /\ UNCHANGED <<results, files, phase>>
       ELSE /\ results' = [results EXCEPT ![k] = value]
            /\ UNCHANGED procVars
            /\ phase' = "downloaded"
            /\ files' = locations(results', Len(SourceKeys))

taskDoneIgnoresError(k, err, value) ==
  /\ fstate' = [fstate EXCEPT ![k] = "done"]
  /\ results' = [results EXCEPT ![k] = value]
  /\ UNCHANGED procVars
  /\ IF \A j \in Keys : fstate'[j] = "done"
       THEN /\ phase' = "downloaded"
            /\ files' = locations(results', Len(SourceKeys))
       ELSE UNCHANGED <<phase, files>>

\* a task of async.parallel calls back with (err, value): the first error
\* goes to download's final callback, which fails with error.message; the
\* last result makes it hand the non-null results to the waterfall
taskDone(k, err, value) ==
  /\ fstate' = [fstate EXCEPT ![k] = "done"]
  /\ IF err # Null
       THEN /\ fail(err, [from |-> "save", key |-> k, message |-> err])
            /\ UNCHANGED <<results, files, phase>>
       ELSE /\ results' = [results EXCEPT ![k] = value]
            /\ UNCHANGED procVars
            /\ IF \A j \in Keys : fstate'[j] = "done"
                 THEN /\ phase' = "downloaded"
                      /\ files' = locations(results', Len(SourceKeys))
                 ELSE UNCHANGED <<phase, files>>

\* process.nextTick(cb) of an unconfigured key: cb() without arguments; for
\* dexcom cb is the task's callback, for the others the one fetch() was given
NextTick ==
  /\ Running
  /\ phase = "downloading"
  /\ ticks # <<>>
  /\ ticks' = Tail(ticks)
  /\ taskDone(Head(ticks), Null,
              IF Head(ticks) = "dexcom" THEN <<>> ELSE descriptor(Head(ticks), Null))
  /\ UNCHANGED <<jobVars, stdinVars, startCalls, fetchCalls, saveResult,
                 unlinkCalls, unlinkWarned, dbVars, parseVars>>

\* callback of antacid.fetch: an error fails at once, without calling cb;
\* otherwise the stream is given to storage.save
FetchCallback(k) ==
  /\ Running
  /\ phase = "downloading"
  /\ ticks = <<>>
  /\ fstate[k] = "fetching"
  /\ \E err \in BOOLEAN :
       IF err
         THEN /\ fail("Couldn't fetch!?", [from |-> "fetch", key |-> k, message |-> "fetch failed"])
              /\ UNCHANGED fstate
         ELSE /\ fstate' = [fstate EXCEPT ![k] = "saving"]
              /\ UNCHANGED procVars
  /\ UNCHANGED <<jobVars, stdinVars, phase, startCalls, ticks, fetchCalls,
                 results, saveResult, unlinkCalls, unlinkWarned, files, dbVars,
                 parseVars>>

\* the location handle storage.save(groupId, filename, ...) yields
Location(k) == FileName(k)

\* what storage.save calls back with: an error, or a location (or none)
SaveOutcomes(k) ==
  {[err |-> m, location |-> Null] : m \in SaveErrorMessages}
    \cup {[err |-> Null, location |-> l] : l \in {Null, Location(k)}}

\* callback of storage.save: cb(err, loc); dexcom's cb first unlinks
\* config.dexcom.file and keeps (err, location) for the unlink callback
SaveCallback(k) ==
  /\ Running
  /\ phase = "downloading"
  /\ ticks = <<>>
  /\ fstate[k] = "saving"
  /\ \E o \in SaveOutcomes(k) :
       IF k = "dexcom"
         THEN /\ unlinkCalls' = unlinkCalls + 1
              /\ saveResult' = [saveResult EXCEPT ![k] = <<o>>]
              /\ fstate' = [fstate EXCEPT ![k] = "unlinking"]
              /\ UNCHANGED <<procVars, results, files, phase>>
         ELSE /\ saveResult' = [saveResult EXCEPT ![k] = <<o>>]
              /\ taskDone(k, o.err, descriptor(k, o.location))
              /\ UNCHANGED unlinkCalls
  /\ UNCHANGED <<jobVars, stdinVars, startCalls, ticks, fetchCalls,
                 unlinkWarned, dbVars, parseVars>>

UnlinkCallbackEscalates ==
  /\ Running
  /\ phase = "downloading"
  /\ ticks = <<>>
  /\ fstate["dexcom"] = "unlinking"
  /\ \E error \in BOOLEAN :
       /\ unlinkWarned' = IF error THEN unlinkWarned + 1 ELSE unlinkWarned
       /\ taskDone("dexcom",
                   IF error THEN "unlink failed" ELSE saveResult["dexcom"][1].err,
                   descriptor("dexcom", saveResult["dexcom"][1].location))
  /\ UNCHANGED <<jobVars, stdinVars, startCalls, ticks, fetchCalls, saveResult,
                 unlinkCalls, dbVars, parseVars>>

\* callback of fs.unlink: its error is only logged, cb gets what
\* storage.save called back with
UnlinkCallback ==
  /\ Running
  /\ phase = "downloading"
  /\ ticks = <<>>
  /\ fstate["dexcom"] = "unlinking"
  /\ \E error \in BOOLEAN :
       /\ unlinkWarned' = IF error THEN unlinkWarned + 1 ELSE unlinkWarned
       /\ taskDone("dexcom", saveResult["dexcom"][1].err,
                   descriptor("dexcom", saveResult["dexcom"][1].location))
  /\ UNCHANGED <<jobVars, stdinVars, startCalls, ticks, fetchCalls, saveResult,
                 unlinkCalls, dbVars, parseVars>>

(***************************************************************************)
(* The waterfall step after download: removeData calls deleteData with the *)
(* group of the job.                                                       *)
(***************************************************************************)
removeDataWrongGroup ==
  /\ Running
  /\ phase = "downloaded"
  /\ deleteCalls' = Append(deleteCalls, Null)
  /\ phase' = "deleting"
  /\ UNCHANGED <<jobVars, stdinVars, startCalls, procVars, dlVars,
                 persisted, deleteResults, storeCalls, parseVars>>

removeDataOtherGroup ==
  /\ Running
  /\ phase = "downloaded"
  /\ deleteCalls' = Append(deleteCalls, OtherGroup)
  /\ phase' = "deleting"
  /\ UNCHANGED <<jobVars, stdinVars, startCalls, procVars, dlVars,
                 persisted, deleteResults, storeCalls, parseVars>>

removeData ==
  /\ Running
  /\ phase = "downloaded"
  /\ deleteCalls' = Append(deleteCalls, config.groupId)
  /\ phase' = "deleting"
  /\ UNCHANGED <<jobVars, stdinVars, startCalls, procVars, dlVars,
                 persisted, deleteResults, storeCalls, parseVars>>

\* deleteData(groupId): the database without the records of the group
deleteData(db, groupId) ==
  [e \in {x \in DOMAIN db : x._groupId # groupId} |-> db[e]]

\* the bag of the elements of a sequence
SeqToBag(s) ==
  [e \in {s[i] : i \in DOMAIN s} |-> Cardinality({i \in DOMAIN s : s[i] = e})]

\* storeData(records): the database with the records added
storeData(db, records) == db (+) SeqToBag(records)

tagNothing(e) == [source |-> e.source, n |-> e.n, _groupId |-> Null]

tagOtherGroup(e) == [source |-> e.source, n |-> e.n, _groupId |-> OtherGroup]

\* the map step of go: e._groupId = config.groupId
tag(e) == [source |-> e.source, n |-> e.n, _groupId |-> config.groupId]

onCompletedStoresEmpty ==
  /\ storeCalls' = Append(storeCalls, resultsArray)
  /\ phase' = "storing"
  /\ UNCHANGED procVars

\* the onCompleted handler of go's subscription: an empty resultsArray
\* fails, anything else is given to storeData
onCompleted ==
  IF resultsArray = <<>>
    THEN /\ fail("No results", [from |-> "go", key |-> Null, message |-> "No results"])
         /\ phase' = "parsing"
         /\ UNCHANGED storeCalls
    ELSE /\ storeCalls' = Append(storeCalls, resultsArray)
         /\ phase' = "storing"
         /\ UNCHANGED procVars

\* flatMap's selector: ingestion[locSpec.source] == null throws
parseThrows(locSpec) == locSpec.source \notin Registered

\* callback of deleteData, which is the waterfall's final callback: an error
\* fails; otherwise the subscription starts, the selector of flatMap runs
\* for every location (an exception of it is the subscription's error) and
\* an empty array of locations completes at once
DeleteCallback ==
  /\ Running
  /\ phase = "deleting"
  /\ \E err \in BOOLEAN :
       /\ deleteResults' = Append(deleteResults, IF err THEN "err" ELSE "ok")
       /\ IF err
         THEN /\ fail("Just another error", [from |-> "delete", key |-> Null, message |-> "delete failed"])
              /\ UNCHANGED <<persisted, storeCalls, phase, pstate, parseCalls>>
         ELSE /\ persisted' = deleteData(persisted, deleteCalls[Len(deleteCalls)])
              /\ IF \E i \in DOMAIN files : parseThrows(files[i])
                   THEN /\ fail("Problem parsing data", [from |-> "parse", key |-> Null, message |-> "parse failed"])
                        /\ UNCHANGED <<storeCalls, phase, pstate, parseCalls>>
                   ELSE /\ parseCalls' = parseCalls \cup
                             {[source |-> files[i].source,
                               location |-> files[i].location,
                               config |-> files[i].config] : i \in DOMAIN files}
                        /\ pstate' = [k \in Keys |->
                             IF \E i \in DOMAIN files : files[i].source = k
                               THEN "parsing" ELSE pstate[k]]
                        /\ IF files = <<>>
                             THEN onCompleted
                             ELSE /\ phase' = "parsing"
                                  /\ UNCHANGED <<procVars, storeCalls>>
  /\ UNCHANGED <<jobVars, stdinVars, startCalls, dlVars, deleteCalls,
                 emitted, resultsArray>>

\* a parser emits its next record: it is tagged and pushed
ParseNext(k) ==
  /\ Running
  /\ phase = "parsing"
  /\ pstate[k] = "parsing"
  /\ emitted[k] < MaxRecs
  /\ emitted' = [emitted EXCEPT ![k] = emitted[k] + 1]
  /\ resultsArray' = Append(resultsArray, tag([source |-> k, n |-> emitted[k] + 1]))
  /\ UNCHANGED <<jobVars, stdinVars, phase, startCalls, procVars, dlVars,
                 dbVars, pstate, parseCalls>>

ParseErrorCompletes(k) ==
  /\ Running
  /\ phase = "parsing"
  /\ pstate[k] = "parsing"
  /\ pstate' = [pstate EXCEPT ![k] = "failed"]
  /\ IF \A j \in Keys : pstate'[j] # "parsing"
       THEN onCompleted
       ELSE UNCHANGED <<procVars, storeCalls, phase>>
  /\ UNCHANGED <<jobVars, stdinVars, startCalls, dlVars, persisted,
                 deleteCalls, deleteResults, parseCalls, emitted, resultsArray>>

\* a parser raises an error: the onError handler fails
ParseError(k) ==
  /\ Running
  /\ phase = "parsing"
  /\ pstate[k] = "parsing"
  /\ pstate' = [pstate EXCEPT ![k] = "failed"]
  /\ fail("Problem parsing data", [from |-> "parse", key |-> Null, message |-> "parse failed"])
  /\ UNCHANGED <<jobVars, stdinVars, phase, startCalls, dlVars, dbVars,
                 parseCalls, emitted, resultsArray>>

\* a parser completes; the merged sequence completes with the last of them
ParseCompleted(k) ==
  /\ Running
  /\ phase = "parsing"
  /\ pstate[k] = "parsing"
  /\ pstate' = [pstate EXCEPT ![k] = "done"]
  /\ IF \A j \in Keys : pstate'[j] # "parsing"
       THEN onCompleted
       ELSE UNCHANGED <<procVars, storeCalls, phase>>
  /\ UNCHANGED <<jobVars, stdinVars, startCalls, dlVars, persisted,
                 deleteCalls, deleteResults, parseCalls, emitted, resultsArray>>

\* callback of storeData: an error fails (what was written of the array
\* before the error stays); otherwise the connection is closed
StoreCallback ==
  /\ Running
  /\ phase = "storing"
  /\ \/ /\ \E n \in 0..(Len(resultsArray) - 1) :
             persisted' = storeData(persisted, SubSeq(resultsArray, 1, n))
        /\ fail("Problem with DB, Oh Noes!", [from |-> "store", key |-> Null, message |-> "store failed"])
        /\ UNCHANGED phase
     \/ /\ persisted' = storeData(persisted, resultsArray)
        /\ closeCalls' = closeCalls + 1
        /\ phase' = "closing"
        /\ UNCHANGED <<exited, errorJson, warned>>
  /\ UNCHANGED <<jobVars, stdinVars, startCalls, dlVars, deleteCalls,
                 deleteResults, storeCalls, parseVars>>

\* callback of mongoClient.close on the success path: process.exit(0)
CloseCallback ==
  /\ Running
  /\ phase = "closing"
  /\ exited' = Append(exited, ExitSuccess)
  /\ UNCHANGED <<jobVars, stdinVars, phase, startCalls, closeCalls,
                 errorJson, warned, dlVars, dbVars, parseVars>>

Next ==
  \/ StdinData
  \/ go
  \/ MongoStartCallback
  \/ download
  \/ NextTick
  \/ \E k \in Keys : FetchCallback(k)
  \/ \E k \in Keys : SaveCallback(k)
  \/ UnlinkCallback
  \/ removeData
  \/ DeleteCallback
  \/ \E k \in Keys : ParseNext(k)
  \/ \E k \in Keys : ParseError(k)
  \/ \E k \in Keys : ParseCompleted(k)
  \/ StoreCallback
  \/ CloseCallback

Spec == Init /\ [][Next]_vars

\* every callback that is due is eventually called: stdin delivers what it
\* holds, next ticks run, every collaborator calls back
FairSpec == Spec /\ WF_vars(Next)

\* what stdin may hold after the job description: nothing, a stray closing
\* brace, other characters, another JSON object
Trailing == {<<>>, <<"}">>, <<"c">>, <<"{", "c", "}">>}

\* stdin holds the job description and whatever follows it; the source
\* configs name their own service, no storage directory is given and the
\* database is empty
InitStdin ==
  /\ Constructed
  /\ \A k \in Keys : config[k] \in {Null, k}
  /\ taskStorageDir = Null
  /\ persisted = EmptyBag
  /\ \E t \in Trailing : stdinRest = stringify(config) \o t

SpecStdin == InitStdin /\ [][Next]_vars

TypeOK ==
  /\ config \in JobDescriptions
  /\ Len(exited) <= 1
  /\ \A k \in Keys : emitted[k] \in 0..MaxRecs

(***************************************************************************)
(* A second invocation of the same job description after a successful one: *)
(* a new process starts from the module's initial state, on the database   *)
(* the first one left.                                                     *)
(***************************************************************************)
Rerun ==
  /\ exited = <<ExitSuccess>>
  /\ run = 1
  /\ run' = 2
  /\ firstRun' = <<[files |-> files, records |-> SeqToBag(resultsArray),
                    persisted |-> persisted]>>
  /\ phase' = "stdin"
  /\ exited' = <<>>
  /\ startCalls' = 0
  /\ closeCalls' = 0
  /\ errorJson' = <<>>
  /\ warned' = <<>>
  /\ ticks' = <<>>
  /\ fstate' = [k \in Keys |-> "idle"]
  /\ fetchCalls' = {}
  /\ results' = [k \in Keys |-> <<>>]
  /\ saveResult' = [k \in Keys |-> <<>>]
  /\ unlinkCalls' = 0
  /\ files' = <<>>
  /\ deleteCalls' = <<>>
  /\ storeCalls' = <<>>
  /\ pstate' = [k \in Keys |-> "none"]
  /\ parseCalls' = {}
  /\ emitted' = [k \in Keys |-> 0]
  /\ resultsArray' = <<>>
  /\ preRun' = persisted
  /\ unlinkWarned' = 0
  /\ deleteResults' = <<>>
  /\ stdinRest' = stringify(config)
  /\ input' = <<>>
  /\ goArgs' = <<>>
  /\ UNCHANGED <<config, taskStorageDir, persisted>>

\* a step of the second invocation: its collaborators answer as they did in
\* the first one (no error, the same locations, the same records)
Replay ==
  run = 2 =>
    /\ warned' = <<>>
    /\ files' \in {<<>>, firstRun[1].files}
    /\ SeqToBag(resultsArray') \sqsubseteq firstRun[1].records
    /\ storeCalls' # <<>> => SeqToBag(resultsArray') = firstRun[1].records

NextTwice ==
  \/ StdinData /\ Replay
  \/ go /\ Replay
  \/ MongoStartCallback /\ Replay
  \/ download /\ Replay
  \/ NextTick /\ Replay
  \/ \E k \in Keys : FetchCallback(k) /\ Replay
  \/ \E k \in Keys : SaveCallback(k) /\ Replay
  \/ UnlinkCallback /\ Replay
  \/ removeData /\ Replay
  \/ DeleteCallback /\ Replay
  \/ \E k \in Keys : ParseNext(k) /\ Replay
  \/ \E k \in Keys : ParseError(k) /\ Replay
  \/ \E k \in Keys : ParseCompleted(k) /\ Replay
  \/ StoreCallback /\ Replay
  \/ CloseCallback /\ Replay
  \/ Rerun

\* the two invocations are given a job description that can succeed: it has
\* a groupId and every configured source names its own service
InitTwice ==
  /\ Init
  /\ hasGroupId(config)
  /\ \A k \in Keys : config[k] \in {Null, k}

SpecTwice == InitTwice /\ [][NextTwice]_vars

(***************************************************************************)
(* Vocabulary of the properties.                                           *)
(***************************************************************************)
Exited == exited # <<>>

Configured(k) == config[k] # Null

\* a descriptor of key k was handed to download's callback
Handed(k) == \E i \in DOMAIN files : files[i].source = k

\* download's callback has been called
HandedOver == phase \in {"downloaded", "deleting", "parsing", "storing", "closing"}

\* the records of group g in the database
GroupRecords(db, g) == [e \in {x \in DOMAIN db : x._groupId = g} |-> db[e]]

\* the records the parsers emitted in this run, tagged with the job's group
ParsedThisRun ==
  {[source |-> p[1], n |-> p[2], _groupId |-> config.groupId] :
     p \in {q \in Keys \X (1..(MaxRecs + 1)) : q[2] <= emitted[q[1]]}}

\* fail() was called for an error of one of these origins
FailedFrom(origins) == warned # <<>> /\ warned[1].error.from \in origins

\* every parser of the run has completed
MergeCompleted == phase \in {"parsing", "storing", "closing"}
                    /\ \A k \in Keys : pstate[k] \in {"none", "done"}

(***************************************************************************)
(* C1: when every configured source was fetched into a location and parsed *)
(* to completion, at least one record was parsed and neither delete nor    *)
(* store reported an error, the run exits with code 0 and the database     *)
(* holds, for the job's group, exactly the records parsed in this run,     *)
(* each once and tagged with the group.                                    *)
(***************************************************************************)
C1_SuccessfulRunReplacesGroupData ==
  (/\ Exited
   /\ \A k \in Keys : Configured(k) => Handed(k) /\ pstate[k] = "done"
   /\ HandedOver
   /\ resultsArray # <<>>
   /\ ~FailedFrom({"delete", "store"}))
  => /\ exited = <<ExitSuccess>>
     /\ GroupRecords(persisted, config.groupId) = SetToBag(ParsedThisRun)

C1_Witness ==
  /\ exited = <<ExitSuccess>>
  /\ Cardinality({k \in Keys : Configured(k)}) = 2
  /\ \A k \in Keys : Configured(k) => emitted[k] >= 1
  /\ Cardinality(ParsedThisRun) >= 2

(***************************************************************************)
(* C2: in a run whose job description has no groupId no Fetcher is called, *)
(* deleteData is not called and storeData is not called (the connection is *)
(* not started either).                                                    *)
(***************************************************************************)
C2_NoGroupIdNoActivity ==
  config.groupId = Null =>
    /\ fetchCalls = {}
    /\ deleteCalls = <<>>
    /\ storeCalls = <<>>
    /\ startCalls = 0
    /\ \A k \in Keys : fstate[k] = "idle"

C2_Witness == config.groupId = Null /\ Exited /\ config.carelink # Null

(***************************************************************************)
(* C3: every run that ends, ends with exit code 0 or 255, and close has    *)
(* been called exactly once when it does.                                  *)
(***************************************************************************)
C3_TwoOutcomesCloseOnce ==
  Exited => /\ exited \in {<<ExitSuccess>>, <<ExitFailure>>}
            /\ closeCalls = 1

(***************************************************************************)
(* C4: whenever a run ends in failure and a storage directory was given,   *)
(* error.json has been written with a reason.                              *)
(***************************************************************************)
C4_EveryFailureWritesArtifact ==
  (Exited /\ exited # <<ExitSuccess>> /\ taskStorageDir # Null)
    => Len(errorJson) = 1

C6_FetchFailureReported_Original ==
  FailedFrom({"fetch", "save"}) =>
    /\ exited = <<ExitFailure>>
    /\ taskStorageDir # Null =>
         Len(errorJson) = 1 /\ errorJson[1].reason # ""

(***************************************************************************)
(* C6, amended: when a Fetcher or a blob save reports an error the run     *)
(* exits 255 and, with a storage directory, error.json is written once;    *)
(* its reason is "Couldn't fetch!?" for a Fetcher error and the message of *)
(* the error for a save error, which is empty when that message is.        *)
(***************************************************************************)
C6_FetchFailureReported ==
  FailedFrom({"fetch", "save"}) =>
    /\ exited = <<ExitFailure>>
    /\ closeCalls = 1
    /\ deleteCalls = <<>>
    /\ taskStorageDir # Null =>
         /\ Len(errorJson) = 1
         /\ errorJson[1].reason =
              IF warned[1].error.from = "fetch" THEN "Couldn't fetch!?"
              ELSE warned[1].error.message
    /\ taskStorageDir = Null => errorJson = <<>>

C6_Witness ==
  /\ FailedFrom({"save"})
  /\ taskStorageDir # Null
  /\ errorJson = <<[reason |-> ""]>>

(***************************************************************************)
(* C7: when the merged sequence completes with no record the run exits 255 *)
(* with the reason "No results", storeData is never called and the         *)
(* database holds no record of the group.                                  *)
(***************************************************************************)
C7_EmptyResultFailsAfterDelete ==
  (MergeCompleted /\ resultsArray = <<>>) =>
    /\ exited = <<ExitFailure>>
    /\ warned = <<[reason |-> "No results",
                   error |-> [from |-> "go", key |-> Null, message |-> "No results"]]>>
    /\ taskStorageDir # Null => errorJson = <<[reason |-> "No results"]>>
    /\ storeCalls = <<>>
    /\ Len(deleteCalls) = 1
    /\ GroupRecords(persisted, config.groupId) = EmptyBag

C7_Witness ==
  /\ MergeCompleted /\ resultsArray = <<>>
  /\ \E k \in Keys : pstate[k] = "done"
  /\ DOMAIN persisted # {}

(***************************************************************************)
(* C8: when the second of two successful runs of a job description is      *)
(* handed the same locations and parses the same records as the first, the *)
(* database after it equals the database after the first.                  *)
(***************************************************************************)
C8_ReplaceIsIdempotent ==
  (/\ run = 2
   /\ exited = <<ExitSuccess>>
   /\ files = firstRun[1].files
   /\ SeqToBag(resultsArray) = firstRun[1].records)
  => persisted = firstRun[1].persisted

C8_Witness ==
  /\ run = 2
  /\ exited = <<ExitSuccess>>
  /\ files = firstRun[1].files
  /\ SeqToBag(resultsArray) = firstRun[1].records
  /\ Len(resultsArray) >= 2

(***************************************************************************)
(* C9: when the dexcom Fetcher reports an error the run exits 255 and the  *)
(* unlink of the dexcom staging file has been attempted.                   *)
(***************************************************************************)
C9_DexcomUnlinkAttemptedOnFetchError ==
  (Exited /\ FailedFrom({"fetch"}) /\ warned[1].error.key = "dexcom")
    => exited = <<ExitFailure>> /\ unlinkCalls >= 1

(***************************************************************************)
(* C10, as stated: at the end of a run a descriptor of key k has been      *)
(* handed over iff k was configured and its save yielded a location.       *)
(***************************************************************************)
SavedLocation(k) ==
  /\ saveResult[k] # <<>>
  /\ saveResult[k][1].err = Null
  /\ saveResult[k][1].location # Null

SavedWithoutError(k) ==
  /\ saveResult[k] # <<>>
  /\ saveResult[k][1].err = Null

C10_DescriptorIffFetched_Original ==
  Exited => \A k \in Keys : Handed(k) <=> (Configured(k) /\ SavedLocation(k))

(***************************************************************************)
(* C10, amended: descriptors are handed over only when every task of the   *)
(* download has called back without error; then a descriptor of carelink,  *)
(* diasend or tconnect is handed over iff the key was configured and its   *)
(* save yielded a location, a descriptor of dexcom iff dexcom was          *)
(* configured (also when its save yielded no location), and there is at    *)
(* most one descriptor per key.  When a fetch or a save fails, none is.    *)
(***************************************************************************)
C10_DescriptorIffFetched ==
  /\ HandedOver =>
       \A k \in Keys :
         Handed(k) <=> /\ Configured(k)
                       /\ SavedWithoutError(k)
                       /\ (k = "dexcom" \/ SavedLocation(k))
  /\ ~HandedOver => files = <<>>
  /\ \A i, j \in DOMAIN files : files[i].source = files[j].source => i = j
  /\ \A i \in DOMAIN files :
       files[i].location = saveResult[files[i].source][1].location

C10_Witness ==
  /\ Exited
  /\ \E i \in DOMAIN files : files[i].source = "dexcom" /\ files[i].location = Null
  /\ \E i \in DOMAIN files : files[i].source # "dexcom"

(***************************************************************************)
(* C11: every record of every array given to storeData carries the groupId *)
(* of the job description of the run.                                      *)
(***************************************************************************)
C11_StoredRecordsCarryGroupId ==
  \A i \in DOMAIN storeCalls :
    \A j \in DOMAIN storeCalls[i] :
      storeCalls[i][j]._groupId = config.groupId

C11_Witness ==
  /\ storeCalls # <<>>
  /\ Len(storeCalls[1]) >= 2
  /\ \E i, j \in DOMAIN storeCalls[1] :
       storeCalls[1][i].source # storeCalls[1][j].source

(***************************************************************************)
(* C12: the stages run in order and once.  deleteData is called at most    *)
(* once, and only when the fetch and the save of every configured source   *)
(* have called back without error; a Parser is invoked only after          *)
(* deleteData has called back without error, and at most once per source;  *)
(* storeData is called at most once, with the array of the completed       *)
(* merged sequence; go and mongoClient.start run at most once.             *)
(***************************************************************************)
C12_StagesInOrderOnce ==
  /\ Len(goArgs) <= 1 /\ startCalls <= 1
  /\ Len(deleteCalls) <= 1 /\ Len(deleteResults) <= Len(deleteCalls)
  /\ Len(storeCalls) <= 1
  /\ deleteCalls # <<>> =>
       \A k \in Keys : Configured(k) => fstate[k] = "done" /\ SavedWithoutError(k)
  /\ parseCalls # {} => deleteResults = <<"ok">>
  /\ \A c, d \in parseCalls : c.source = d.source => c = d
  /\ storeCalls # <<>> =>
       /\ deleteResults = <<"ok">>
       /\ MergeCompleted
       /\ storeCalls[1] = resultsArray

C12_Witness ==
  /\ exited = <<ExitSuccess>>
  /\ Len(deleteCalls) = 1
  /\ Cardinality(parseCalls) >= 2
  /\ Len(storeCalls) = 1

(***************************************************************************)
(* C13: once a Fetcher or a blob save of a configured source has reported  *)
(* an error, nothing is handed over, deleteData, the Parsers and storeData *)
(* are never called and the database is the one the run started on; the    *)
(* run ends with code 255, at once or, when the error is dexcom's save,    *)
(* with the callback of the unlink.                                        *)
(***************************************************************************)
FetchErrorObserved ==
  \/ FailedFrom({"fetch"})
  \/ \E k \in Keys : saveResult[k] # <<>> /\ saveResult[k][1].err # Null

C13_FailFastFetch ==
  FetchErrorObserved =>
    /\ files = <<>>
    /\ deleteCalls = <<>>
    /\ parseCalls = {}
    /\ storeCalls = <<>>
    /\ persisted = preRun
    /\ Exited => exited = <<ExitFailure>>
    /\ ~Exited => /\ fstate["dexcom"] = "unlinking"
                  /\ saveResult["dexcom"][1].err # Null

C13_Witness ==
  /\ exited = <<ExitFailure>>
  /\ FailedFrom({"fetch"})
  /\ \E k \in Keys : /\ k # warned[1].error.key
                     /\ Configured(k)
                     /\ fstate[k] = "saving"
  /\ preRun # EmptyBag

(***************************************************************************)
(* C14, as stated: once download has run, the Fetcher registered under the *)
(* key itself has been invoked for every configured key.                   *)
(***************************************************************************)
\* download() has been called
DownloadRan ==
  \/ phase \in {"downloading", "downloaded", "deleting", "parsing", "storing", "closing"}
  \/ phase = "started" /\ Exited

C15_ParserGetsLocationAndConfig ==
  /\ \A c \in parseCalls :
       /\ c.source \in Registered
       /\ \E i \in DOMAIN files :
            files[i].source = c.source /\ files[i].location = c.location
       /\ c.location = saveResult[c.source][1].location
       /\ c.config = config[c.source]
  /\ phase \in {"parsing", "storing", "closing"} =>
       \A i \in DOMAIN files : \E c \in parseCalls : c.source = files[i].source

(***************************************************************************)
(* C16: once a Parser has raised an error, or a descriptor names a source  *)
(* without a registered Parser, the run has ended with code 255, storeData *)
(* has not been called and the database holds no record of the group,      *)
(* whatever the other Parsers had emitted by then.                         *)
(***************************************************************************)
ParseErrorObserved ==
  \/ FailedFrom({"parse"})
  \/ \E k \in Keys : pstate[k] = "failed"

C16_ParseErrorStoresNothing ==
  ParseErrorObserved =>
    /\ exited = <<ExitFailure>>
    /\ warned[1].reason = "Problem parsing data"
    /\ storeCalls = <<>>
    /\ GroupRecords(persisted, config.groupId) = EmptyBag

C16_Witness ==
  /\ Exited
  /\ \E k \in Keys : pstate[k] = "failed" /\ emitted[k] >= 1
  /\ \E k \in Keys : pstate[k] = "parsing"
  /\ preRun # EmptyBag

(***************************************************************************)
(* C17: the callback of the unlink of the dexcom staging file does the     *)
(* same whether or not the unlink failed, the log of the unlink error      *)
(* apart: the run fails there iff dexcom's save had reported an error, and *)
(* with that error; otherwise dexcom's task completes with the location of *)
(* the save; the database is not touched.  No later step reads the log, so *)
(* exit code and database of the run are those of the run whose unlink     *)
(* succeeded.                                                              *)
(***************************************************************************)
C17_UnlinkFailureOnlyLogged ==
  [][(fstate["dexcom"] = "unlinking" /\ fstate'["dexcom"] = "done") =>
       /\ unlinkWarned' \in {unlinkWarned, unlinkWarned + 1}
       /\ persisted' = persisted
       /\ IF saveResult["dexcom"][1].err # Null
            THEN /\ exited' = <<ExitFailure>>
                 /\ warned' = <<[reason |-> saveResult["dexcom"][1].err,
                                 error |-> [from |-> "save", key |-> "dexcom",
                                            message |-> saveResult["dexcom"][1].err]]>>
            ELSE /\ UNCHANGED <<exited, warned, errorJson, closeCalls>>
                 /\ results'["dexcom"] # <<>>
                 /\ results'["dexcom"][1].location = saveResult["dexcom"][1].location
    ]_vars

C17_Witness ==
  /\ unlinkWarned >= 1
  /\ exited = <<ExitSuccess>>
  /\ \E r \in DOMAIN persisted : r.source = "dexcom" /\ r._groupId = config.groupId

(***************************************************************************)
(* C18: when stdin delivers the job description and every collaborator     *)
(* calls back, the run eventually ends with code 0 or with code 255.       *)
(***************************************************************************)
C18_EndsWithExit0Or255 ==
  <>(exited = <<ExitSuccess>> \/ exited = <<ExitFailure>>)

(***************************************************************************)
(* C19: however stdin is cut into chunks and whatever follows the job      *)
(* description on it, go is put on the next tick at most once and started  *)
(* at most once, and only by the parse of the whole text of the job        *)
(* description, never of a strict prefix of it or of what follows it.      *)
(***************************************************************************)
C19_GoStartedOnceWithWholeDescription ==
  /\ Len(goArgs) <= 1
  /\ startCalls <= Len(goArgs)
  /\ \A i \in DOMAIN goArgs : goArgs[i] = stringify(config)
  /\ phase # "stdin" => goArgs # <<>>

C19_Witness ==
  /\ goArgs = <<stringify(config)>>
  /\ startCalls = 1
  /\ \E k \in Keys : Configured(k)
  /\ Len(input) >= 2 /\ input[1] = "null"
  /\ stdinRest # <<>>

(***************************************************************************)
(* C20: in every state of a run the records of the job's group in the      *)
(* database are the ones the run started on, or none, or part of the       *)
(* records this run parsed and tagged, never records of before the run     *)
(* together with records of this run; and they differ from the ones the    *)
(* run started on only when the fetch and the save of every configured     *)
(* source have called back without error and deleteData has succeeded.     *)
(***************************************************************************)
C20_GroupIsOldEmptyOrNew ==
  LET cur == GroupRecords(persisted, config.groupId)
      pre == GroupRecords(preRun, config.groupId)
  IN  /\ \/ cur = pre
         \/ cur = EmptyBag
         \/ cur \sqsubseteq SeqToBag(resultsArray)
      /\ cur # pre =>
           /\ \A k \in Keys :
                Configured(k) => fstate[k] = "done" /\ SavedWithoutError(k)
           /\ deleteResults = <<"ok">>

C20_Witness ==
  LET cur == GroupRecords(persisted, config.groupId)
  IN  /\ exited = <<ExitFailure>>
      /\ FailedFrom({"store"})
      /\ GroupRecords(preRun, config.groupId) # EmptyBag
      /\ cur # EmptyBag
      /\ cur # SeqToBag(resultsArray)

====
